---- MODULE Spec2Model ----
(***************************************************************************)
(* State-machine model of src/BAS_Controller.py, the controller of the     *)
(* building automation system (class BuildingAutomationSystem).            *)
(*                                                                         *)
(* Units.  Temperatures are integers in hundredths of a degree Celsius     *)
(* (22.0 C is 2200), times are integer seconds since local midnight,       *)
(* energy is in hundredths of a kWh.  Texts typed into the schedule        *)
(* entries are sequences of one-character strings.                         *)
(*                                                                         *)
(* Threads.  Every command (button handler) is a callback of the Tk main   *)
(* loop.  The monitor threads reach the shared state only through Tk       *)
(* variables and the log widget, and Tk serves such a call of another      *)
(* thread from the main loop, that is between two callbacks.  A command    *)
(* is therefore one action.  In Spec a monitor tick (one pass of the body  *)
(* of the thread's while-loop) is one action as well; ClimateSpec takes    *)
(* the pass of monitor_temperature apart into its Tk calls.                *)
(*                                                                         *)
(* Outputs.  The log widget is only ever appended to and never read by     *)
(* the program, and so are the serial lines and the message boxes.  The    *)
(* model keeps what the most recent step appended to the log (logged),     *)
(* wrote to the serial lines (wire) and showed in a message box (dialog).  *)
(* Message boxes and the widgets themselves are presentation.              *)
(***************************************************************************)
EXTENDS Integers, Sequences, FiniteSets, TLC

(***************************************************************************)
(* Bounds of the model.                                                    *)
(***************************************************************************)
\* the clock advances TickSeconds at a time, MaxTicks times
MaxTicks == 3
TickSeconds == 20
\* the simulated reading stays within MaxDrift jitter steps of a macro target
MaxDrift == 1
\* a fluctuation that the rounding absorbs
FluctSmall == 4
\* the schedule clock advances SchedulePeriod at a time, MaxPolls times
MaxPolls == 3
\* the energy clock advances EnergyPeriod at a time, MaxMinutes times
MaxMinutes == 4

(***************************************************************************)
(* Program constants.                                                      *)
(***************************************************************************)
DoorTimeout == 10
FluctMax == 30
EnergySavingMin == 1800
EnergySavingMax == 2300
LevelOn == 100
LevelOff == 0
DoorFrameHead == 254
DoorCodeOpen == 8
DoorCodeClose == 0
EnergyPeriod == 60
SchedulePeriod == 30

available_modes == {"Manual", "Auto", "Schedule", "Energy Saving"}

\* the lighting channels, in the order their frames are written
LightChannels == <<4, 2, 3, 6>>

macros ==
    [ Morning |-> [lights |-> "On",  temperature |-> 2200, door |-> "Off"],
      Day     |-> [lights |-> "On",  temperature |-> 2300, door |-> "Off"],
      Evening |-> [lights |-> "On",  temperature |-> 2100, door |-> "Off"],
      Night   |-> [lights |-> "Off", temperature |-> 1900, door |-> "Off"],
      Away    |-> [lights |-> "Off", temperature |-> 1800, door |-> "Off"] ]

MacroNames == DOMAIN macros

InitialTemp == 2200
InitialTempMin == 2000
InitialTempMax == 2500
InitialAutoMode == FALSE

VARIABLES
    lights_state,        \* "On" | "Off"
    door_relay_state,    \* "On" | "Off"
    current_temp,
    temp_min,
    temp_max,
    door_open_time,
    lights_on_time,
    lights_off_time,
    auto_mode,
    scheduled_mode,
    energy_usage,
    last_energy_update,
    current_mode,
    is_connected,
    now,                 \* time.time(), seconds since local midnight
    logged,              \* entries the last step appended to the log
    wire,                \* frames the last step wrote to the serial lines
    dialog,              \* message box the last step showed, or "none"
    last,                \* the last step: its operation (op), its inputs (arg),
                         \* the transport errors raised in it (errs), and for a
                         \* mode change whether the step before was the same
                         \* mode change (again)
    local                \* what the monitor threads hold in their local
                         \* variables: the reading monitor_temperature has taken
                         \* in the middle of a pass (<<>> outside one), the time
                         \* at which the sleep of monitor_schedule ends, and the
                         \* device command monitor_schedule is in the middle of:
                         \* <<level, frames written, current_time>>, or <<>>;
                         \* and, for the commands that are followed frame by
                         \* frame, what the lighting controller holds (sent):
                         \* for each channel the level of the last frame
                         \* written to it, <<>> before the first

facility == <<lights_state, door_relay_state, current_temp, temp_min, temp_max,
              door_open_time, lights_on_time, lights_off_time, auto_mode,
              scheduled_mode, energy_usage, last_energy_update, current_mode,
              is_connected>>

outputs == <<logged, wire, dialog, last>>

vars == <<facility, now, outputs, local>>

(***************************************************************************)
(* The serial gateway.  What a call of serial.Serial, write or readline    *)
(* does is the environment's choice: an outcome says how many frames were  *)
(* written (w), how many replies were read and logged (r) and whether the  *)
(* call sequence ended in a transport error (err).  The error is raised by *)
(* the open (w = 0), by the write of frame w + 1 (r = w) or by the read of *)
(* the reply to frame w (r = w - 1).                                       *)
(***************************************************************************)
NumChannels == Len(LightChannels)

LightOutcomes ==
    {[w |-> NumChannels, r |-> NumChannels, err |-> FALSE]}
    \cup {[w |-> k, r |-> k, err |-> TRUE] : k \in 0..(NumChannels - 1)}
    \cup {[w |-> k, r |-> k - 1, err |-> TRUE] : k \in 1..NumChannels}

DoorOutcomes ==
    {[w |-> 1, r |-> 1, err |-> FALSE],
     [w |-> 0, r |-> 0, err |-> TRUE],
     [w |-> 1, r |-> 0, err |-> TRUE]}

LightFrame(ch, level) == <<"SDL", ch, level>>

DoorFrame(code) == <<DoorFrameHead, code>>

\* the first n lighting frames of a command, in the order of the code's list
LightFrames(level, n) == [i \in 1..n |-> LightFrame(LightChannels[i], level)]

\* the channels of the lighting controller
Channels == {LightChannels[i] : i \in 1..NumChannels}

\* what the controller holds after the frames have arrived in their order:
\* a channel keeps the level of the last frame addressed to it
Deliver(sent, frames) ==
    [ch \in DOMAIN sent |->
        LET to == {i \in DOMAIN frames : frames[i][2] = ch}
        IN  IF to = {} THEN sent[ch]
            ELSE <<frames[CHOOSE i \in to : \A j \in to : j <= i][3]>>]

Replies(n) == [i \in 1..n |-> <<"Light command response">>]

(***************************************************************************)
(* A command runs on a record of what it may change: the two device flags, *)
(* the door's opening time, and what it has appended to the log and        *)
(* written to the lines so far (errs counts the transport errors raised).  *)
(***************************************************************************)
Cur ==
    [lights |-> lights_state, door |-> door_relay_state, dot |-> door_open_time,
     temp |-> current_temp, log |-> <<>>, wire |-> <<>>, errs |-> 0]

log_event(s, message) == [s EXCEPT !.log = Append(@, message)]

\* turn_on_lights with an error path that logs and leaves the flag alone
turn_on_lights_strict(s, o) ==
    IF ~is_connected
    THEN log_event(s, <<"System not connected. Unable to turn on lights.">>)
    ELSE IF o.err
    THEN [s EXCEPT !.wire = @ \o LightFrames(LevelOn, o.w),
                   !.log = @ \o Replies(o.r) \o <<<<"Error turning on lights">>>>,
                   !.errs = @ + 1]
    ELSE [s EXCEPT !.wire = @ \o LightFrames(LevelOn, o.w),
                   !.log = @ \o Replies(o.r) \o <<<<"Lights turned ON">>>>,
                   !.lights = "On"]

turn_on_lights(s, o) ==
    IF ~is_connected
    THEN log_event(s, <<"System not connected. Unable to turn on lights.">>)
    ELSE IF o.err
    THEN [s EXCEPT !.wire = @ \o LightFrames(LevelOn, o.w),
                   !.log = @ \o Replies(o.r) \o <<<<"Error turning on lights">>>>,
                   !.errs = @ + 1,
                   !.lights = "On"]
    ELSE [s EXCEPT !.wire = @ \o LightFrames(LevelOn, o.w),
                   !.log = @ \o Replies(o.r) \o <<<<"Lights turned ON">>>>,
                   !.lights = "On"]

turn_off_lights(s, o) ==
    IF ~is_connected
    THEN log_event(s, <<"System not connected. Unable to turn off lights.">>)
    ELSE IF o.err
    THEN [s EXCEPT !.wire = @ \o LightFrames(LevelOff, o.w),
                   !.log = @ \o Replies(o.r) \o <<<<"Error turning off lights">>>>,
                   !.errs = @ + 1,
                   !.lights = "Off"]
    ELSE [s EXCEPT !.wire = @ \o LightFrames(LevelOff, o.w),
                   !.log = @ \o Replies(o.r) \o <<<<"Lights turned OFF">>>>,
                   !.lights = "Off"]

\* the door frame, when the outcome says it was written
DoorWritten(code, o) == IF o.w = 1 THEN <<DoorFrame(code)>> ELSE <<>>

turn_on_door_relay(s, o) ==
    IF ~is_connected
    THEN log_event(s, <<"System not connected. Unable to open door.">>)
    ELSE IF o.err
    THEN [s EXCEPT !.wire = @ \o DoorWritten(DoorCodeOpen, o),
                   !.log = Append(@, <<"Error opening door">>),
                   !.errs = @ + 1,
                   !.door = "On"]
    ELSE [s EXCEPT !.wire = @ \o DoorWritten(DoorCodeOpen, o),
                   !.log = @ \o << <<"Door relay command sent">>, <<"Door opened">> >>,
                   !.door = "On",
                   !.dot = now]

turn_off_door_relay(s, o) ==
    IF ~is_connected
    THEN log_event(s, <<"System not connected. Unable to close door.">>)
    ELSE IF o.err
    THEN [s EXCEPT !.wire = @ \o DoorWritten(DoorCodeClose, o),
                   !.log = Append(@, <<"Error closing door">>),
                   !.errs = @ + 1,
                   !.door = "Off"]
    ELSE [s EXCEPT !.wire = @ \o DoorWritten(DoorCodeClose, o),
                   !.log = @ \o << <<"Door relay command sent">>, <<"Door closed">> >>,
                   !.door = "Off"]

\* the step writes back what the command changed and what it put out
Commit(s, op, arg, box) ==
    /\ lights_state' = s.lights
    /\ door_relay_state' = s.door
    /\ door_open_time' = s.dot
    /\ current_temp' = s.temp
    /\ logged' = s.log
    /\ wire' = s.wire
    /\ dialog' = box
    /\ last' = [op |-> op, arg |-> arg, errs |-> s.errs,
                again |-> IF op = "change_mode" /\ last.op = op
                          THEN last.arg = arg ELSE FALSE]

(***************************************************************************)
(* Construction (__init__): the variables' initial values; setup_gui and   *)
(* start_all_monitoring each log one entry; try_connect_devices sets       *)
(* is_connected by whether both ports could be opened and written.         *)
(***************************************************************************)
StartTime == 6 * 3600 + 59 * 60 + 40

Init ==
    /\ lights_state = "Off"
    /\ door_relay_state = "Off"
    /\ current_temp = InitialTemp
    /\ temp_min = InitialTempMin
    /\ temp_max = InitialTempMax
    /\ door_open_time = 0
    /\ lights_on_time = <<"0", "7", ":", "0", "0">>
    /\ lights_off_time = <<"1", "9", ":", "0", "0">>
    /\ auto_mode = InitialAutoMode
    /\ scheduled_mode = FALSE
    /\ energy_usage = 0
    /\ last_energy_update = StartTime
    /\ current_mode = "Manual"
    /\ is_connected \in BOOLEAN
    /\ now = StartTime
    /\ logged = << <<"System initialized">>, <<"All monitoring systems started">> >>
    /\ wire = <<>>
    /\ dialog = "none"
    /\ last = [op |-> "init", arg |-> <<>>, errs |-> 0, again |-> FALSE]
    /\ local = [monitor_temperature |-> <<>>, schedule_wake |-> StartTime, command |-> <<>>,
                sent |-> [ch \in Channels |-> <<>>]]

\* the monitor threads start_all_monitoring starts: auto_mode is False then
StartedMonitors ==
    {"monitor_temperature", "monitor_schedule", "monitor_energy_usage"}
    \cup (IF InitialAutoMode THEN {"auto_mode_monitor"} ELSE {})

(***************************************************************************)
(* Gateway outcomes a step draws.  A command that finds is_connected False *)
(* returns before it calls the gateway: NoCall.  SomeLightOutcomes are the *)
(* success and the failed open.                                            *)
(***************************************************************************)
NoCall == [w |-> 0, r |-> 0, err |-> FALSE]

Drawn(outcomes) == IF is_connected THEN outcomes ELSE {NoCall}

SomeLightOutcomes == {o \in LightOutcomes : o.w \in {0, NumChannels} /\ o.r = o.w}

(***************************************************************************)
(* The individual controls (buttons Lights On/Off, Door Open/Close).       *)
(***************************************************************************)
ManualLightsOn(LO) ==
    \E o \in Drawn(LO) :
        /\ Commit(turn_on_lights(Cur, o), "turn_on_lights", <<>>, "none")
        /\ UNCHANGED <<temp_min, temp_max, lights_on_time, lights_off_time, auto_mode,
                       scheduled_mode, energy_usage, last_energy_update, current_mode,
                       is_connected, now, local>>

ManualLightsOff(LO) ==
    \E o \in Drawn(LO) :
        /\ Commit(turn_off_lights(Cur, o), "turn_off_lights", <<>>, "none")
        /\ UNCHANGED <<temp_min, temp_max, lights_on_time, lights_off_time, auto_mode,
                       scheduled_mode, energy_usage, last_energy_update, current_mode,
                       is_connected, now, local>>

ManualDoorOpen ==
    \E o \in Drawn(DoorOutcomes) :
        /\ Commit(turn_on_door_relay(Cur, o), "turn_on_door_relay", <<>>, "none")
        /\ UNCHANGED <<temp_min, temp_max, lights_on_time, lights_off_time, auto_mode,
                       scheduled_mode, energy_usage, last_energy_update, current_mode,
                       is_connected, now, local>>

ManualDoorClose ==
    \E o \in Drawn(DoorOutcomes) :
        /\ Commit(turn_off_door_relay(Cur, o), "turn_off_door_relay", <<>>, "none")
        /\ UNCHANGED <<temp_min, temp_max, lights_on_time, lights_off_time, auto_mode,
                       scheduled_mode, energy_usage, last_energy_update, current_mode,
                       is_connected, now, local>>

(***************************************************************************)
(* Operating modes (the four mode buttons).                                *)
(***************************************************************************)
\* ModeFlags with an Auto branch that leaves scheduled_mode as it is
ModeFlags_keep(mode) ==
    IF mode = "Auto" THEN <<TRUE, scheduled_mode, temp_min, temp_max>>
    ELSE IF mode = "Schedule" THEN <<FALSE, TRUE, temp_min, temp_max>>
    ELSE IF mode = "Energy Saving"
    THEN <<TRUE, TRUE, EnergySavingMin, EnergySavingMax>>
    ELSE <<FALSE, FALSE, temp_min, temp_max>>

\* ModeFlags with a Schedule branch that flips scheduled_mode, as the box does
ModeFlags_flip(mode) ==
    IF mode = "Auto" THEN <<TRUE, FALSE, temp_min, temp_max>>
    ELSE IF mode = "Schedule" THEN <<FALSE, ~scheduled_mode, temp_min, temp_max>>
    ELSE IF mode = "Energy Saving"
    THEN <<TRUE, TRUE, EnergySavingMin, EnergySavingMax>>
    ELSE <<FALSE, FALSE, temp_min, temp_max>>

\* the flags and the range a mode sets: <<auto_mode, scheduled_mode, min, max>>
ModeFlags(mode) ==
    IF mode = "Auto" THEN <<TRUE, FALSE, temp_min, temp_max>>
    ELSE IF mode = "Schedule" THEN <<FALSE, TRUE, temp_min, temp_max>>
    ELSE IF mode = "Energy Saving"
    THEN <<TRUE, TRUE, EnergySavingMin, EnergySavingMax>>
    ELSE <<FALSE, FALSE, temp_min, temp_max>>

\* ModeDevices without the lights-off of Energy Saving
ModeDevices_none(s, mode, o) == s

\* the device commands a mode issues: Energy Saving turns the lights off
ModeDevices(s, mode, o) ==
    IF mode = "Energy Saving" THEN turn_off_lights(s, o) ELSE s

change_mode(mode, o) ==
    LET s == log_event(ModeDevices(Cur, mode, o), <<"Mode changed to", mode>>)
    IN  /\ current_mode' = mode
        /\ auto_mode' = ModeFlags(mode)[1]
        /\ scheduled_mode' = ModeFlags(mode)[2]
        /\ temp_min' = ModeFlags(mode)[3]
        /\ temp_max' = ModeFlags(mode)[4]
        /\ Commit(s, "change_mode", <<mode>>, "none")
        /\ UNCHANGED <<lights_on_time, lights_off_time, energy_usage,
                       last_energy_update, is_connected, now, local>>

\* only the Energy Saving branch calls the gateway
ModeOutcomes(mode, LO) == IF mode = "Energy Saving" THEN Drawn(LO) ELSE {NoCall}

SetMode(LO) ==
    \E mode \in available_modes : \E o \in ModeOutcomes(mode, LO) : change_mode(mode, o)

(***************************************************************************)
(* The Enable Schedule check box: the click flips the variable bound to    *)
(* the box, then the handler runs.                                         *)
(***************************************************************************)
toggle_scheduled_mode ==
    LET checked == ~scheduled_mode
        s == log_event(Cur, IF checked THEN <<"Scheduled mode enabled">>
                                       ELSE <<"Scheduled mode disabled">>)
    IN  /\ scheduled_mode' = checked
        /\ current_mode' = IF checked THEN "Schedule" ELSE "Manual"
        /\ Commit(s, "toggle_scheduled_mode", <<checked>>, "none")
        /\ UNCHANGED <<temp_min, temp_max, lights_on_time, lights_off_time, auto_mode,
                       energy_usage, last_energy_update, is_connected, now, local>>

(***************************************************************************)
(* Macros (the five macro buttons).                                        *)
(***************************************************************************)
\* apply_macro whose else branch also appends an entry to the log
apply_macro_logging(macro_name, o1, o2) ==
    IF macro_name \in MacroNames
    THEN LET macro == macros[macro_name]
             s1 == IF macro.lights = "On" THEN turn_on_lights(Cur, o1)
                                          ELSE turn_off_lights(Cur, o1)
             s2 == [s1 EXCEPT !.temp = macro.temperature]
             s3 == IF macro.door = "On" THEN turn_on_door_relay(s2, o2)
                                        ELSE turn_off_door_relay(s2, o2)
             s4 == log_event(s3, <<"Applied macro:", macro_name>>)
         IN  Commit(s4, "apply_macro", <<macro_name>>, "Macro Applied")
    ELSE Commit(log_event(Cur, <<"Macro not found:", macro_name>>),
                "apply_macro", <<macro_name>>, "Error: macro not found")

apply_macro(macro_name, o1, o2) ==
    IF macro_name \in MacroNames
    THEN LET macro == macros[macro_name]
             s1 == IF macro.lights = "On" THEN turn_on_lights(Cur, o1)
                                          ELSE turn_off_lights(Cur, o1)
             s2 == [s1 EXCEPT !.temp = macro.temperature]
             s3 == IF macro.door = "On" THEN turn_on_door_relay(s2, o2)
                                        ELSE turn_off_door_relay(s2, o2)
             s4 == log_event(s3, <<"Applied macro:", macro_name>>)
         IN  Commit(s4, "apply_macro", <<macro_name>>, "Macro Applied")
    ELSE Commit(Cur, "apply_macro", <<macro_name>>, "Error: macro not found")

ApplyMacro(LO) ==
    \E macro_name \in MacroNames : \E o1 \in Drawn(LO) : \E o2 \in Drawn(DoorOutcomes) :
        /\ apply_macro(macro_name, o1, o2)
        /\ UNCHANGED <<temp_min, temp_max, lights_on_time, lights_off_time, auto_mode,
                       scheduled_mode, energy_usage, last_energy_update, current_mode,
                       is_connected, now, local>>

\* names that are no key of macros
UnregisteredNames == {"Holiday", ""}

\* apply_macro called with a name that is not registered: the else branch
\* calls no device command
ApplyUnknownMacro ==
    \E macro_name \in UnregisteredNames :
        /\ apply_macro(macro_name, NoCall, NoCall)
        /\ UNCHANGED <<temp_min, temp_max, lights_on_time, lights_off_time, auto_mode,
                       scheduled_mode, energy_usage, last_energy_update, current_mode,
                       is_connected, now, local>>

(***************************************************************************)
(* Temperature range.  The two entries are bound to temp_min and temp_max: *)
(* what the user types is the variables' value when Set is pressed.  The   *)
(* handler reads the variables, compares, and logs or reports; it assigns  *)
(* neither variable.                                                       *)
(***************************************************************************)
set_temperature_range ==
    LET min_temp == temp_min'
        max_temp == temp_max'
    IN  IF min_temp >= max_temp
        THEN Commit(Cur, "set_temperature_range", <<min_temp, max_temp>>,
                    "Error: minimum must be less than maximum")
        ELSE Commit(log_event(Cur, <<"Temperature range set", min_temp, max_temp>>),
                    "set_temperature_range", <<min_temp, max_temp>>, "Success")

\* the user types a range and presses Set
SetTemperatureRange(Entries) ==
    \E typed \in Entries :
        /\ temp_min' = typed[1]
        /\ temp_max' = typed[2]
        /\ set_temperature_range
        /\ UNCHANGED <<lights_on_time, lights_off_time, auto_mode, scheduled_mode,
                       energy_usage, last_energy_update, current_mode, is_connected, now, local>>

(***************************************************************************)
(* monitor_temperature: one pass of the loop body.  random.uniform draws   *)
(* the fluctuation; the reading is stored rounded to one decimal, and the  *)
(* unrounded reading is what is compared with the range.  The humidity     *)
(* reading is simulated the same way and read by nothing else.             *)
(***************************************************************************)
\* round(x, 1) of a value in hundredths: to the nearest ten, a tie to even
RoundTenth(x) ==
    LET q == x \div 10
        r == x % 10
    IN  IF r < 5 THEN 10 * q
        ELSE IF r > 5 THEN 10 * (q + 1)
        ELSE IF q % 2 = 0 THEN 10 * q ELSE 10 * (q + 1)

\* the fluctuations drawn in this model: the extremes and a small one
Flucts == {-FluctMax, -FluctSmall, FluctSmall, FluctMax}

\* the readings of this model: within MaxDrift extreme steps of a macro target
TempWindow ==
    {macros[m].temperature + k * FluctMax : m \in MacroNames, k \in (-MaxDrift)..MaxDrift}
    \cup {InitialTemp + k * FluctMax : k \in (-MaxDrift)..MaxDrift}

\* what the tick does about the reading: "heat", "cool" or "none"
Regulation(new_temp) ==
    IF new_temp < temp_min /\ auto_mode THEN "heat"
    ELSE IF new_temp > temp_max /\ auto_mode THEN "cool"
    ELSE "none"

monitor_temperature(fluctuation, o) ==
    LET current == current_temp
        new_temp == current + fluctuation
        s0 == [Cur EXCEPT !.temp = RoundTenth(new_temp)]
        s1 == IF Regulation(new_temp) = "heat"
              THEN turn_on_lights(
                       log_event(s0, <<"Temperature below minimum. Activating heating.">>), o)
              ELSE IF Regulation(new_temp) = "cool"
              THEN turn_off_lights(
                       log_event(s0, <<"Temperature above maximum. Deactivating heating.">>), o)
              ELSE s0
    IN  /\ RoundTenth(new_temp) \in TempWindow
        /\ Commit(s1, "monitor_temperature", <<new_temp>>, "none")
        /\ UNCHANGED <<temp_min, temp_max, lights_on_time, lights_off_time, auto_mode,
                       scheduled_mode, energy_usage, last_energy_update, current_mode,
                       is_connected, now, local>>

\* the gateway is called only when the tick regulates
TickOutcomes(fluctuation, LO) ==
    IF Regulation(current_temp + fluctuation) = "none" THEN {NoCall} ELSE Drawn(LO)

MonitorTemperature(LO) ==
    \E fluctuation \in Flucts : \E o \in TickOutcomes(fluctuation, LO) :
        monitor_temperature(fluctuation, o)

(***************************************************************************)
(* The pass of monitor_temperature, one Tk call at a time.  The thread's   *)
(* current_temp.get() and current_temp.set() are two calls, each served by *)
(* the main loop between two callbacks: a command can run between them.    *)
(* No lock is held across the two.                                         *)
(***************************************************************************)
\* current = self.current_temp.get()
monitor_temperature_get ==
    /\ local.monitor_temperature = <<>>
    /\ local' = [local EXCEPT !.monitor_temperature = <<current_temp>>]
    /\ logged' = <<>>
    /\ wire' = <<>>
    /\ dialog' = "none"
    /\ last' = [op |-> "monitor_temperature_get", arg |-> <<current_temp>>, errs |-> 0,
                again |-> FALSE]
    /\ UNCHANGED <<facility, now>>

\* self.current_temp.set(round(new_temp, 1)) and the rest of the pass
monitor_temperature_set(fluctuation, o) ==
    LET current == local.monitor_temperature[1]
        new_temp == current + fluctuation
        s0 == [Cur EXCEPT !.temp = RoundTenth(new_temp)]
        s1 == IF Regulation(new_temp) = "heat"
              THEN turn_on_lights(
                       log_event(s0, <<"Temperature below minimum. Activating heating.">>), o)
              ELSE IF Regulation(new_temp) = "cool"
              THEN turn_off_lights(
                       log_event(s0, <<"Temperature above maximum. Deactivating heating.">>), o)
              ELSE s0
    IN  /\ RoundTenth(new_temp) \in TempWindow
        /\ Commit(s1, "monitor_temperature", <<new_temp>>, "none")
        /\ local' = [local EXCEPT !.monitor_temperature = <<>>]
        /\ UNCHANGED <<temp_min, temp_max, lights_on_time, lights_off_time, auto_mode,
                       scheduled_mode, energy_usage, last_energy_update, current_mode,
                       is_connected, now>>

MonitorTemperatureSet(LO) ==
    /\ local.monitor_temperature # <<>>
    /\ \E fluctuation \in Flucts :
           \E o \in (IF Regulation(local.monitor_temperature[1] + fluctuation) = "none"
                      THEN {NoCall} ELSE Drawn(LO)) :
               monitor_temperature_set(fluctuation, o)

(***************************************************************************)
(* Schedule.  The two entries are bound to lights_on_time and              *)
(* lights_off_time; update_schedule (button Set Schedule) reads the        *)
(* variables, parses both with strptime("%H:%M"), and logs or reports; it  *)
(* assigns neither variable.                                               *)
(***************************************************************************)
Digits == <<"0", "1", "2", "3", "4", "5", "6", "7", "8", "9">>

DigitSet == {Digits[i] : i \in 1..Len(Digits)}

\* %H of strptime: 2[0-3], [0-1]\d or \d
IsHourText(h) ==
    \/ Len(h) = 1 /\ h[1] \in DigitSet
    \/ Len(h) = 2 /\ h[1] \in {"0", "1"} /\ h[2] \in DigitSet
    \/ Len(h) = 2 /\ h[1] = "2" /\ h[2] \in {"0", "1", "2", "3"}

\* %M of strptime: [0-5]\d or \d
IsMinuteText(m) ==
    \/ Len(m) = 1 /\ m[1] \in DigitSet
    \/ Len(m) = 2 /\ m[1] \in {"0", "1", "2", "3", "4", "5"} /\ m[2] \in DigitSet

\* whether strptime(text, "%H:%M") returns (it raises ValueError otherwise):
\* the whole text is an hour, a colon and a minute
strptime_ok(text) ==
    \E i \in 1..Len(text) :
        /\ text[i] = ":"
        /\ IsHourText(SubSeq(text, 1, i - 1))
        /\ IsMinuteText(SubSeq(text, i + 1, Len(text)))

\* strftime("%H:%M") of a time in seconds since midnight
strftime_HM(t) ==
    LET hh == (t \div 3600) % 24
        mm == (t \div 60) % 60
    IN  <<Digits[(hh \div 10) + 1], Digits[(hh % 10) + 1], ":",
          Digits[(mm \div 10) + 1], Digits[(mm % 10) + 1]>>

update_schedule ==
    LET on_time == lights_on_time'
        off_time == lights_off_time'
    IN  IF strptime_ok(on_time) /\ strptime_ok(off_time)
        THEN Commit(log_event(Cur, <<"Schedule updated", on_time, off_time>>),
                    "update_schedule", <<on_time, off_time>>, "Success")
        ELSE Commit(Cur, "update_schedule", <<on_time, off_time>>,
                    "Error: invalid time format")

\* the user types the two times and presses Set Schedule
SetSchedule(Texts) ==
    \E on_text \in Texts : \E off_text \in Texts :
        /\ lights_on_time' = on_text
        /\ lights_off_time' = off_text
        /\ update_schedule
        /\ UNCHANGED <<temp_min, temp_max, auto_mode, scheduled_mode, energy_usage,
                       last_energy_update, current_mode, is_connected, now, local>>

(***************************************************************************)
(* monitor_schedule: one pass of the loop body.                            *)
(***************************************************************************)
monitor_schedule(o1, o2) ==
    LET current_time == strftime_HM(now)
        s1 == IF scheduled_mode /\ current_time = lights_on_time
              THEN log_event(turn_on_lights(Cur, o1), <<"Scheduled light activation">>)
              ELSE Cur
        s2 == IF scheduled_mode /\ current_time = lights_off_time
              THEN log_event(turn_off_lights(s1, o2), <<"Scheduled light deactivation">>)
              ELSE s1
    IN  /\ Commit(s2, "monitor_schedule", <<current_time>>, "none")
        /\ UNCHANGED <<temp_min, temp_max, lights_on_time, lights_off_time, auto_mode,
                       scheduled_mode, energy_usage, last_energy_update, current_mode,
                       is_connected, now>>

\* the gateway is called only for a transition that fires
FiringOutcomes(time_text, LO) ==
    IF scheduled_mode /\ strftime_HM(now) = time_text THEN Drawn(LO) ELSE {NoCall}

MonitorSchedule(LO) ==
    /\ \E o1 \in FiringOutcomes(lights_on_time, LO) :
           \E o2 \in FiringOutcomes(lights_off_time, LO) : monitor_schedule(o1, o2)
    /\ UNCHANGED local

(***************************************************************************)
(* monitor_schedule with its sleep: a pass begins when the sleep of the    *)
(* pass before has ended, the first as the thread starts.                  *)
(***************************************************************************)
ScheduleTick(LO) ==
    /\ now >= local.schedule_wake
    /\ local.command = <<>>
    /\ \E o1 \in FiringOutcomes(lights_on_time, LO) :
           \E o2 \in FiringOutcomes(lights_off_time, LO) : monitor_schedule(o1, o2)
    /\ local' = [local EXCEPT !.schedule_wake = now + SchedulePeriod]

\* a sleep period of the schedule monitor passes
HalfMinute ==
    /\ now < StartTime + MaxPolls * SchedulePeriod
    /\ now' = now + SchedulePeriod
    /\ UNCHANGED <<facility, outputs, local>>

(***************************************************************************)
(* A pass of monitor_schedule that calls the gateway, one serial call at a *)
(* time.  The thread is inside turn_on_lights or turn_off_lights, between  *)
(* opening the port and leaving the with block, while local.command is not *)
(* <<>>; the flag is set after the block, or by the except handler.        *)
(***************************************************************************)
\* the pass that begins now calls the gateway
SchedulePassCalls ==
    /\ scheduled_mode
    /\ is_connected
    /\ strftime_HM(now) \in {lights_on_time, lights_off_time}

LevelFlag(level) == IF level = LevelOn THEN "On" ELSE "Off"

\* the pass begins, finds the time of a transition and opens the port
monitor_schedule_open ==
    LET current_time == strftime_HM(now)
        level == IF current_time = lights_on_time THEN LevelOn ELSE LevelOff
    IN  /\ now >= local.schedule_wake
        /\ local.command = <<>>
        /\ SchedulePassCalls
        /\ local' = [local EXCEPT !.command = <<level, 0, current_time>>]
        /\ logged' = <<>>
        /\ wire' = <<>>
        /\ dialog' = "none"
        /\ last' = [op |-> "monitor_schedule_open", arg |-> <<current_time>>, errs |-> 0,
                    again |-> FALSE]
        /\ UNCHANGED <<facility, now>>

\* ser.write of the next frame and ser.readline of its reply
monitor_schedule_frame ==
    /\ local.command # <<>>
    /\ local.command[2] < NumChannels
    /\ LET level == local.command[1]
           k == local.command[2]
       IN  /\ wire' = <<LightFrame(LightChannels[k + 1], level)>>
           /\ local' = [local EXCEPT !.command[2] = k + 1,
                                      !.sent = Deliver(@, wire')]
           /\ logged' = Replies(1)
           /\ dialog' = "none"
           /\ last' = [op |-> "monitor_schedule_frame", arg |-> <<level, k + 1>>,
                       errs |-> 0, again |-> FALSE]
           /\ UNCHANGED <<facility, now>>

\* the command ends, with all frames written or with a transport error (err):
\* the flag is set and the pass goes on to the check of the off time
monitor_schedule_close(err) ==
    /\ local.command # <<>>
    /\ err \/ local.command[2] = NumChannels
    /\ LET level == local.command[1]
           current_time == local.command[3]
           entry == IF err THEN (IF level = LevelOn THEN <<"Error turning on lights">>
                                                    ELSE <<"Error turning off lights">>)
                           ELSE (IF level = LevelOn THEN <<"Lights turned ON">>
                                                    ELSE <<"Lights turned OFF">>)
           note == IF level = LevelOn THEN <<"Scheduled light activation">>
                                      ELSE <<"Scheduled light deactivation">>
       IN  /\ lights_state' = LevelFlag(level)
           /\ logged' = <<entry, note>>
           /\ wire' = <<>>
           /\ dialog' = "none"
           /\ last' = [op |-> "monitor_schedule", arg |-> <<current_time>>,
                       errs |-> IF err THEN 1 ELSE 0, again |-> FALSE]
           /\ local' = IF level = LevelOn /\ current_time = lights_off_time
                       THEN [local EXCEPT !.command = <<LevelOff, 0, current_time>>]
                       ELSE [local EXCEPT !.command = <<>>,
                                          !.schedule_wake = now + SchedulePeriod]
           /\ UNCHANGED <<door_relay_state, current_temp, temp_min, temp_max,
                          door_open_time, lights_on_time, lights_off_time, auto_mode,
                          scheduled_mode, energy_usage, last_energy_update, current_mode,
                          is_connected, now>>

MonitorScheduleClose == \E err \in BOOLEAN : monitor_schedule_close(err)

\* a pass that does not call the gateway
MonitorScheduleQuiet ==
    /\ ~SchedulePassCalls
    /\ ScheduleTick({})

(***************************************************************************)
(* The end of the process.  The window is closed, root.mainloop() returns  *)
(* and the interpreter exits; the monitor threads are daemon threads and   *)
(* end with it wherever they are.  The program has no other way to stop,   *)
(* and nothing the threads check.                                          *)
(***************************************************************************)
Running == last.op # "exit"

exit ==
    /\ Running
    /\ last' = [op |-> "exit", arg |-> <<>>, errs |-> 0, again |-> FALSE]
    /\ logged' = <<>>
    /\ wire' = <<>>
    /\ dialog' = "none"
    /\ UNCHANGED <<facility, now, local>>

(***************************************************************************)
(* monitor_energy_usage: one pass of the loop body.  The factors are in    *)
(* tenths, so the increment in hundredths of a kWh is                      *)
(* factor * seconds / 3600, and the sum is stored rounded to two decimals. *)
(***************************************************************************)
\* n / d rounded to the nearest integer, a tie to even
RoundDiv(n, d) ==
    LET q == n \div d
        r == n % d
    IN  IF 2 * r < d THEN q
        ELSE IF 2 * r > d THEN q + 1
        ELSE IF q % 2 = 0 THEN q ELSE q + 1

\* monitor_energy_usage that stores the interval's usage alone
monitor_energy_usage_interval ==
    LET lights_factor == IF lights_state = "On" THEN 10 ELSE 2
        door_factor == IF door_relay_state = "On" THEN 5 ELSE 0
        seconds == now - last_energy_update
    IN  /\ energy_usage' = RoundDiv((lights_factor + door_factor) * seconds, 3600)
        /\ last_energy_update' = now
        /\ logged' = <<>>
        /\ wire' = <<>>
        /\ dialog' = "none"
        /\ last' = [op |-> "monitor_energy_usage", arg |-> <<seconds>>, errs |-> 0,
                    again |-> FALSE]
        /\ UNCHANGED <<lights_state, door_relay_state, current_temp, temp_min, temp_max,
                       door_open_time, lights_on_time, lights_off_time, auto_mode,
                       scheduled_mode, current_mode, is_connected, now, local>>

monitor_energy_usage ==
    LET lights_factor == IF lights_state = "On" THEN 10 ELSE 2
        door_factor == IF door_relay_state = "On" THEN 5 ELSE 0
        seconds == now - last_energy_update
        current_usage == energy_usage
    IN  /\ energy_usage' =
               RoundDiv(current_usage * 3600 + (lights_factor + door_factor) * seconds, 3600)
        /\ last_energy_update' = now
        /\ logged' = <<>>
        /\ wire' = <<>>
        /\ dialog' = "none"
        /\ last' = [op |-> "monitor_energy_usage", arg |-> <<seconds>>, errs |-> 0,
                    again |-> FALSE]
        /\ UNCHANGED <<lights_state, door_relay_state, current_temp, temp_min, temp_max,
                       door_open_time, lights_on_time, lights_off_time, auto_mode,
                       scheduled_mode, current_mode, is_connected, now, local>>

\* the thread sleeps EnergyPeriod seconds after a pass; the first pass runs
\* as the thread starts, during construction.  The sleep is a lower bound on
\* the time between two passes: the process can be suspended for longer.
EnergyTick ==
    /\ now - last_energy_update >= EnergyPeriod
    /\ monitor_energy_usage

\* a sleep period of the energy monitor passes
Minute ==
    /\ now < StartTime + MaxMinutes * EnergyPeriod
    /\ now' = now + EnergyPeriod
    /\ UNCHANGED <<facility, outputs, local>>

(***************************************************************************)
(* auto_mode_monitor: one pass of the loop body.  start_all_monitoring     *)
(* starts this thread only if auto_mode is set when it is called, which is *)
(* during construction: the thread is not among StartedMonitors and the    *)
(* action is part of no next-state relation.                               *)
(***************************************************************************)
auto_mode_monitor(o1, o2) ==
    LET s1 == IF auto_mode /\ current_temp < temp_min /\ lights_state = "Off"
              THEN turn_on_lights(Cur, o1)
              ELSE IF auto_mode /\ ~(current_temp < temp_min)
                      /\ current_temp > temp_max /\ lights_state = "On"
              THEN turn_off_lights(Cur, o1)
              ELSE Cur
        s2 == IF auto_mode /\ door_relay_state = "On" /\ now - door_open_time > DoorTimeout
              THEN log_event(turn_off_door_relay(s1, o2), <<"Auto-closed door after timeout">>)
              ELSE s1
    IN  /\ "auto_mode_monitor" \in StartedMonitors
        /\ Commit(s2, "auto_mode_monitor", <<>>, "none")
        /\ UNCHANGED <<temp_min, temp_max, lights_on_time, lights_off_time, auto_mode,
                       scheduled_mode, energy_usage, last_energy_update, current_mode,
                       is_connected, now, local>>

(***************************************************************************)
(* Faults in a pass of a monitor loop.  The body of each while-loop is in  *)
(* a try block whose handler logs "<loop> error: ..." and sleeps longer    *)
(* than the body does before the loop goes round again.  What raises in a  *)
(* body is a Tk call (a variable bound to an entry whose text is no        *)
(* number, or the main loop not running); the device commands catch their  *)
(* own exceptions.  A fault is the environment's choice.                   *)
(***************************************************************************)
\* the sleep at the end of a pass, and the sleep of the handler
LoopSleep ==
    [ monitor_temperature  |-> [pass |-> 10, fault |-> 30],
      monitor_schedule     |-> [pass |-> 30, fault |-> 60],
      auto_mode_monitor    |-> [pass |-> 5,  fault |-> 30],
      monitor_energy_usage |-> [pass |-> EnergyPeriod, fault |-> 120] ]

LoopError ==
    [ monitor_temperature  |-> "Temperature monitoring error",
      monitor_schedule     |-> "Schedule monitoring error",
      auto_mode_monitor    |-> "Auto mode error",
      monitor_energy_usage |-> "Energy monitoring error" ]

\* a pass of the loop raised after the body had done `done` to the state: the
\* handler logs and sleeps, and the thread is at the top of its loop again
LoopFault(loop, done) ==
    /\ loop \in StartedMonitors
    /\ Commit(log_event(done, <<LoopError[loop]>>), loop,
              <<"fault", LoopSleep[loop].fault>>, "none")
    /\ UNCHANGED <<temp_min, temp_max, lights_on_time, lights_off_time, auto_mode,
                   scheduled_mode, energy_usage, last_energy_update, current_mode,
                   is_connected, now, local>>

\* monitor_temperature raises at its first Tk call, or at the read of the
\* range after it has stored the new reading
ClimateFault ==
    \/ LoopFault("monitor_temperature", Cur)
    \/ \E fluctuation \in Flucts :
           /\ RoundTenth(current_temp + fluctuation) \in TempWindow
           /\ LoopFault("monitor_temperature",
                        [Cur EXCEPT !.temp = RoundTenth(current_temp + fluctuation)])

ScheduleFault == LoopFault("monitor_schedule", Cur)

EnergyFault == LoopFault("monitor_energy_usage", Cur)

DoorSafetyFault == LoopFault("auto_mode_monitor", Cur)

\* one pass of each loop, with or without a fault
ClimateLoop == MonitorTemperature(SomeLightOutcomes) \/ ClimateFault

ScheduleLoop == MonitorSchedule(SomeLightOutcomes) \/ ScheduleFault

EnergyLoop == monitor_energy_usage \/ EnergyFault

DoorSafetyLoop ==
    \/ \E o1 \in Drawn(SomeLightOutcomes) : \E o2 \in Drawn(DoorOutcomes) :
           auto_mode_monitor(o1, o2)
    \/ DoorSafetyFault

(***************************************************************************)
(* All On and All Off.                                                     *)
(***************************************************************************)
all_systems_on(o1, o2) ==
    LET s1 == log_event(Cur, <<"Activating all systems...">>)
        s2 == turn_on_lights(s1, o1)
        s3 == turn_on_door_relay(s2, o2)
    IN  /\ Commit(s3, "all_systems_on", <<>>, "Success")
        /\ UNCHANGED <<temp_min, temp_max, lights_on_time, lights_off_time, auto_mode,
                       scheduled_mode, energy_usage, last_energy_update, current_mode,
                       is_connected, now, local>>

all_systems_off(o1, o2) ==
    LET s1 == log_event(Cur, <<"Deactivating all systems...">>)
        s2 == turn_off_lights(s1, o1)
        s3 == turn_off_door_relay(s2, o2)
    IN  /\ Commit(s3, "all_systems_off", <<>>, "Success")
        /\ UNCHANGED <<temp_min, temp_max, lights_on_time, lights_off_time, auto_mode,
                       scheduled_mode, energy_usage, last_energy_update, current_mode,
                       is_connected, now, local>>

AllSystemsOn(LO) ==
    \E o1 \in Drawn(LO) : \E o2 \in Drawn(DoorOutcomes) : all_systems_on(o1, o2)

AllSystemsOff(LO) ==
    \E o1 \in Drawn(LO) : \E o2 \in Drawn(DoorOutcomes) : all_systems_off(o1, o2)

\* time passes
Tick ==
    /\ now < StartTime + MaxTicks * TickSeconds
    /\ now' = now + TickSeconds
    /\ UNCHANGED <<facility, outputs, local>>

\* the ranges the user types in this model: a valid one, an inverted one
\* and an empty one
TempEntries ==
    { <<InitialTempMin, EnergySavingMax>>,
      <<EnergySavingMax, InitialTempMin>>,
      <<EnergySavingMax, EnergySavingMax>> }

(***************************************************************************)
(* The specifications.  Spec: modes, macros, the temperature range, the    *)
(* individual controls and the temperature monitor, at a fixed time.       *)
(* ModeSpec: the same with the mode set by the mode buttons only.          *)
(* GatewaySpec: the device commands with every gateway outcome.            *)
(* DoorSpec: the door, the clock and the monitors the program starts.      *)
(* ScheduleSpec: the schedule, the clock and the schedule monitor.         *)
(* MacroSpec: the macros, by registered and by unregistered names.         *)
(* EnergySpec: the energy monitor, its clock and the device controls.      *)
(* LoopSpec: the monitor loops with faults in their passes.                *)
(* ClimateSpec: the pass of monitor_temperature call by call, with macros. *)
(* PollSpec: monitor_schedule with its sleep, and its clock.               *)
(* RaceSpec: the pass of monitor_schedule call by call, with the mode      *)
(* commands of the main loop between its calls.                            *)
(* ShutdownSpec: the pass of monitor_schedule call by call, and the end    *)
(* of the process.                                                         *)
(***************************************************************************)
Next ==
    \/ ManualLightsOn(SomeLightOutcomes)
    \/ ManualLightsOff(SomeLightOutcomes)
    \/ ManualDoorOpen
    \/ ManualDoorClose
    \/ SetMode(SomeLightOutcomes)
    \/ toggle_scheduled_mode
    \/ ApplyMacro(SomeLightOutcomes)
    \/ SetTemperatureRange(TempEntries)
    \/ MonitorTemperature(SomeLightOutcomes)

Spec == Init /\ [][Next]_vars

\* Next without the Enable Schedule box
ModeNext ==
    \/ ManualLightsOn(SomeLightOutcomes)
    \/ ManualLightsOff(SomeLightOutcomes)
    \/ ManualDoorOpen
    \/ ManualDoorClose
    \/ SetMode(SomeLightOutcomes)
    \/ ApplyMacro(SomeLightOutcomes)
    \/ SetTemperatureRange(TempEntries)
    \/ MonitorTemperature(SomeLightOutcomes)

ModeSpec == Init /\ [][ModeNext]_vars

GatewayNext ==
    \/ ManualLightsOn(LightOutcomes)
    \/ ManualLightsOff(LightOutcomes)
    \/ ManualDoorOpen
    \/ ManualDoorClose
    \/ AllSystemsOn(LightOutcomes)
    \/ AllSystemsOff(LightOutcomes)
    \/ Tick

GatewaySpec == Init /\ [][GatewayNext]_vars

MacroNext ==
    \/ ManualLightsOn(SomeLightOutcomes)
    \/ ManualLightsOff(SomeLightOutcomes)
    \/ ManualDoorOpen
    \/ ManualDoorClose
    \/ SetMode(SomeLightOutcomes)
    \/ ApplyMacro(SomeLightOutcomes)
    \/ ApplyUnknownMacro

MacroSpec == Init /\ [][MacroNext]_vars

EnergyNext ==
    \/ ManualLightsOn(SomeLightOutcomes)
    \/ ManualLightsOff(SomeLightOutcomes)
    \/ ManualDoorOpen
    \/ ManualDoorClose
    \/ EnergyTick
    \/ Minute

EnergySpec == Init /\ [][EnergyNext]_vars

ClimateNext ==
    \/ monitor_temperature_get
    \/ MonitorTemperatureSet(SomeLightOutcomes)
    \/ ApplyMacro(SomeLightOutcomes)
    \/ SetMode(SomeLightOutcomes)

ClimateSpec == Init /\ [][ClimateNext]_vars

PollNext ==
    \/ toggle_scheduled_mode
    \/ ManualLightsOn(SomeLightOutcomes)
    \/ ManualLightsOff(SomeLightOutcomes)
    \/ ScheduleTick(SomeLightOutcomes)
    \/ HalfMinute

PollSpec == Init /\ [][PollNext]_vars

\* the mode commands and the pass of monitor_schedule call by call
(***************************************************************************)
(* The buttons Lights On and Lights Off pressed at any time, also while    *)
(* monitor_schedule is in the middle of its command.  The callback runs in *)
(* the main thread, monitor_schedule in its own, each opens the            *)
(* controller's port for itself and nothing keeps one out while the other  *)
(* writes.  The callback's four frames go out in one step, between two     *)
(* serial calls of the monitor thread; the transport raises no error.      *)
(***************************************************************************)
Success == [w |-> NumChannels, r |-> NumChannels, err |-> FALSE]

PressLightsOn ==
    /\ Commit(turn_on_lights(Cur, Success), "turn_on_lights", <<>>, "none")
    /\ local' = [local EXCEPT !.sent = Deliver(@, wire')]
    /\ UNCHANGED <<temp_min, temp_max, lights_on_time, lights_off_time, auto_mode,
                   scheduled_mode, energy_usage, last_energy_update, current_mode,
                   is_connected, now>>

PressLightsOff ==
    /\ Commit(turn_off_lights(Cur, Success), "turn_off_lights", <<>>, "none")
    /\ local' = [local EXCEPT !.sent = Deliver(@, wire')]
    /\ UNCHANGED <<temp_min, temp_max, lights_on_time, lights_off_time, auto_mode,
                   scheduled_mode, energy_usage, last_energy_update, current_mode,
                   is_connected, now>>

\* manual light commands beside the schedule monitor, transport without error
OverlapNext ==
    \/ toggle_scheduled_mode
    \/ PressLightsOn
    \/ PressLightsOff
    \/ MonitorScheduleQuiet
    \/ monitor_schedule_open
    \/ monitor_schedule_frame
    \/ monitor_schedule_close(FALSE)
    \/ HalfMinute

OverlapSpec == Init /\ [][OverlapNext]_vars

RaceNext ==
    \/ SetMode(SomeLightOutcomes)
    \/ toggle_scheduled_mode
    \/ MonitorScheduleQuiet
    \/ monitor_schedule_open
    \/ monitor_schedule_frame
    \/ MonitorScheduleClose
    \/ HalfMinute

RaceSpec == Init /\ [][RaceNext]_vars

ShutdownNext ==
    \/ Running /\ toggle_scheduled_mode
    \/ Running /\ ManualLightsOff(SomeLightOutcomes)
    \/ Running /\ MonitorScheduleQuiet
    \/ Running /\ monitor_schedule_open
    \/ Running /\ monitor_schedule_frame
    \/ Running /\ MonitorScheduleClose
    \/ Running /\ HalfMinute
    \/ exit

ShutdownSpec == Init /\ [][ShutdownNext]_vars

\* the loops of the threads that run, with their faults
LoopNext ==
    \/ MonitorTemperature(SomeLightOutcomes)
    \/ ClimateFault
    \/ MonitorSchedule(SomeLightOutcomes)
    \/ ScheduleFault
    \/ monitor_energy_usage
    \/ EnergyFault
    \/ ManualDoorOpen
    \/ Tick

\* every started thread keeps going round its loop, and time passes
LoopSpec ==
    /\ Init
    /\ [][LoopNext]_vars
    /\ WF_vars(ClimateLoop)
    /\ WF_vars(ScheduleLoop)
    /\ WF_vars(EnergyLoop)
    /\ WF_vars(Tick)

\* the monitor threads that run
Monitors ==
    \/ MonitorTemperature(SomeLightOutcomes)
    \/ MonitorSchedule(SomeLightOutcomes)
    \/ monitor_energy_usage

DoorNext ==
    \/ ManualDoorOpen
    \/ ManualDoorClose
    \/ SetMode(SomeLightOutcomes)
    \/ Monitors
    \/ Tick

\* every started thread keeps running, and time passes
DoorSpec ==
    /\ Init
    /\ [][DoorNext]_vars
    /\ WF_vars(MonitorTemperature(SomeLightOutcomes))
    /\ WF_vars(MonitorSchedule(SomeLightOutcomes))
    /\ WF_vars(monitor_energy_usage)
    /\ WF_vars(Tick)

\* the times the user types in this model
TimeTexts ==
    { <<"0", "7", ":", "0", "0">>, <<"7", ":", "0", "0">>,
      <<"2", "5", ":", "0", "0">>, <<"0", "7", "0", "0">> }

ScheduleNext ==
    \/ SetSchedule(TimeTexts)
    \/ toggle_scheduled_mode
    \/ ManualLightsOn(SomeLightOutcomes)
    \/ ManualLightsOff(SomeLightOutcomes)
    \/ MonitorSchedule(SomeLightOutcomes)
    \/ Tick

ScheduleSpec == Init /\ [][ScheduleNext]_vars

(***************************************************************************)
(* Properties.                                                             *)
(***************************************************************************)
LastEntry == IF logged = <<>> THEN <<>> ELSE logged[Len(logged)]

Logged(entry) == \E i \in 1..Len(logged) : logged[i] = entry

\* the last step was the command op, and the gateway raised a transport error in it
Failed(op) == last.op = op /\ last.errs > 0

\* C1: a manual lights-on in which the gateway raised a transport error, at
\* whichever frame, ends with the lights flag on and an error entry in the log;
\* likewise lights-off, door-open and door-close end with the commanded flag
\* and an error entry.  (GatewaySpec)
C1_OptimisticUpdate ==
    /\ Failed("turn_on_lights") =>
           lights_state = "On" /\ Logged(<<"Error turning on lights">>)
    /\ Failed("turn_off_lights") =>
           lights_state = "Off" /\ Logged(<<"Error turning off lights">>)
    /\ Failed("turn_on_door_relay") =>
           door_relay_state = "On" /\ Logged(<<"Error opening door">>)
    /\ Failed("turn_off_door_relay") =>
           door_relay_state = "Off" /\ Logged(<<"Error closing door">>)

\* a manual lights-on failed after two of the four frames
C1_Witness ==
    /\ Failed("turn_on_lights")
    /\ Len(wire) = 2
    /\ lights_state = "On"

\* C2: once the door is open and has been for more than 10 s, it is closed
\* again, whether or not the user acts.  (DoorSpec: the started monitors keep
\* ticking and time passes)
C2_DoorEventuallyClosed ==
    (door_relay_state = "On" /\ now - door_open_time > DoorTimeout)
        ~> (door_relay_state = "Off")

ModeStep(mode) == last.op = "change_mode" /\ last.arg = <<mode>>

\* C3: when setMode(EnergySaving) has returned, tempMin = 18.0, tempMax = 23.0,
\* the lights are off, the mode is EnergySaving and both auto-regulation and
\* scheduling are enabled.
C3_EnergySavingResult ==
    ModeStep("Energy Saving") =>
        /\ temp_min = 1800
        /\ temp_max = 2300
        /\ lights_state = "Off"
        /\ current_mode = "Energy Saving"
        /\ auto_mode
        /\ scheduled_mode

\* Energy Saving was entered with a connection, and the gateway failed
C3_Witness ==
    /\ ModeStep("Energy Saving")
    /\ is_connected
    /\ last.errs = 1
    /\ <<"Error turning off lights">> \in {logged[i] : i \in 1..Len(logged)}

\* C4: every mode can be set in every state, and when setMode(m) has returned
\* the mode is m, auto-regulation is enabled iff m is Auto or EnergySaving,
\* scheduling is enabled iff m is Schedule or EnergySaving, and the last entry
\* appended to the log is the mode change.
C4_ModeTransition ==
    /\ \A m \in available_modes :
           ENABLED (\E o \in ModeOutcomes(m, SomeLightOutcomes) : change_mode(m, o))
    /\ \A m \in available_modes :
           ModeStep(m) =>
               /\ current_mode = m
               /\ auto_mode = (m \in {"Auto", "Energy Saving"})
               /\ scheduled_mode = (m \in {"Schedule", "Energy Saving"})
               /\ LastEntry = <<"Mode changed to", m>>

\* Auto has been set, with the lights on and a range the user typed
C4_Witness ==
    /\ ModeStep("Auto")
    /\ auto_mode
    /\ ~scheduled_mode
    /\ lights_state = "On"
    /\ temp_max = EnergySavingMax

\* C5 as stated: setMode(m) in a state whose mode is m leaves the facility
\* state as it was.  (ModeSpec)
C5_ReenterIdentity ==
    [][(last'.op = "change_mode" /\ last'.arg = <<current_mode>>)
           => UNCHANGED facility]_vars

\* C5 as amended: setMode(m) directly after setMode(m), with no other command
\* and no monitor tick between the two, leaves the facility state as the first
\* call left it.  (ModeSpec)
C5_RepeatIdempotent ==
    [][(last.op = "change_mode" /\ last'.op = "change_mode" /\ last'.arg = last.arg)
           => UNCHANGED facility]_vars

\* Energy Saving was set twice in a row, with a connection
C5_Witness ==
    /\ ModeStep("Energy Saving")
    /\ last.again
    /\ is_connected

\* C6: a ClimateMonitor tick in mode Auto whose reading is below tempMin ends
\* with the lights on, and one whose reading is above tempMax ends with the
\* lights off.
C6_ClimateRegulation ==
    [][(last'.op = "monitor_temperature" /\ current_mode = "Auto")
           => /\ (last'.arg[1] < temp_min => lights_state' = "On")
              /\ (last'.arg[1] > temp_max => lights_state' = "Off")]_vars

\* C7: when applyMacro(name) has returned, the lights, the temperature and the
\* door are the macro's targets.
C7_MacroTargets ==
    last.op = "apply_macro" =>
        /\ lights_state = macros[last.arg[1]].lights
        /\ current_temp = macros[last.arg[1]].temperature
        /\ door_relay_state = macros[last.arg[1]].door

\* C8: setTemperatureRange(min, max) with min >= max reports the invalid range
\* and leaves tempMin and tempMax as they were before the request.
C8_RejectedRangeUnchanged ==
    [][(last'.op = "set_temperature_range" /\ last'.arg[1] >= last'.arg[2])
           => /\ dialog' = "Error: minimum must be less than maximum"
              /\ temp_min' = temp_min
              /\ temp_max' = temp_max]_vars

\* C9: tempMin < tempMax in every reachable state.
C9_RangeInvariant == temp_min < temp_max

\* a time of day written HH:MM, 00:00 to 23:59
WellFormedHHMM(text) ==
    /\ Len(text) = 5
    /\ text[3] = ":"
    /\ \/ text[1] \in {"0", "1"} /\ text[2] \in DigitSet
       \/ text[1] = "2" /\ text[2] \in {"0", "1", "2", "3"}
    /\ text[4] \in {"0", "1", "2", "3", "4", "5"}
    /\ text[5] \in DigitSet

\* C10: setSchedule with a time that is not a well-formed HH:MM value reports
\* the invalid time format and leaves lightsOnTime and lightsOffTime as they
\* were before the request.  (ScheduleSpec)
C10_RejectedScheduleUnchanged ==
    [][(/\ last'.op = "update_schedule"
        /\ ~(WellFormedHHMM(last'.arg[1]) /\ WellFormedHHMM(last'.arg[2])))
           => /\ dialog' = "Error: invalid time format"
              /\ lights_on_time' = lights_on_time
              /\ lights_off_time' = lights_off_time]_vars

\* C11: applyMacro(name) with a name that is not registered reports the unknown
\* macro, leaves the lights, the door, the temperature and the mode as they
\* were, appends nothing to the log and writes no frame.  (MacroSpec)
C11_UnknownMacroNoEffect ==
    [][(last'.op = "apply_macro" /\ last'.arg[1] \notin MacroNames)
           => /\ dialog' = "Error: macro not found"
              /\ UNCHANGED <<lights_state, door_relay_state, current_temp, current_mode>>
              /\ logged' = <<>>
              /\ wire' = <<>>]_vars

\* an unregistered macro was requested with the lights on, the door open and a
\* temperature a macro had set
C11_Witness ==
    /\ last.op = "apply_macro"
    /\ last.arg[1] \notin MacroNames
    /\ dialog = "Error: macro not found"
    /\ lights_state = "On"
    /\ door_relay_state = "On"
    /\ current_temp = macros.Night.temperature
    /\ current_mode = "Auto"

\* the last step was a pass of the energy monitor
EnergyStep == last.op = "monitor_energy_usage"

\* C12: the energy usage is never negative, and no step, a pass of the energy
\* monitor or a change of the lights or the door, leaves it smaller than it
\* was.  (EnergySpec)
C12_EnergyMonotone ==
    /\ [](energy_usage >= 0)
    /\ [][energy_usage' >= energy_usage]_vars

\* usage has accrued over two passes, the second of which added nothing
C12_Witness ==
    /\ EnergyStep
    /\ energy_usage > 0
    /\ last.arg[1] = EnergyPeriod
    /\ lights_state = "Off"

\* C13: each of the four monitor loops goes round for ever, whether or not a
\* pass raises: the climate, the schedule, the door-safety and the energy loop
\* each execute a pass infinitely often.  (LoopSpec: the started threads keep
\* running and a pass may raise)
C13_MonitorsKeepTicking ==
    /\ []<><<ClimateLoop>>_vars
    /\ []<><<ScheduleLoop>>_vars
    /\ []<><<EnergyLoop>>_vars
    /\ []<><<DoorSafetyLoop>>_vars

\* C14: when a pass of the climate monitor completes after a macro that was
\* applied since the pass read the temperature, the temperature is the macro's
\* target perturbed by at most one fluctuation, not a value derived from the
\* reading taken before the macro.  (ClimateSpec)
C14_NoLostMacroTemperature ==
    [][(last'.op = "monitor_temperature" /\ last.op = "apply_macro")
           => /\ current_temp' - macros[last.arg[1]].temperature <= FluctMax
              /\ macros[last.arg[1]].temperature - current_temp' <= FluctMax]_vars

\* the frames written are lighting frames of one level, in the order of the
\* channels, followed by at most one door frame with the given code
LightsThenDoor(level, code) ==
    \E k \in 0..NumChannels : \E d \in {<<>>, <<DoorFrame(code)>>} :
        wire = LightFrames(level, k) \o d

\* C15: when allSystemsOn() has returned, every lighting frame was written
\* before the door-open frame, the lights are on and the door is open; when
\* allSystemsOff() has returned, every lighting frame was written before the
\* door-close frame, the lights are off and the door is closed; whatever the
\* transport did.  (GatewaySpec)
C15_AllSystemsSequence ==
    /\ last.op = "all_systems_on" =>
           /\ LightsThenDoor(LevelOn, DoorCodeOpen)
           /\ lights_state = "On"
           /\ door_relay_state = "On"
    /\ last.op = "all_systems_off" =>
           /\ LightsThenDoor(LevelOff, DoorCodeClose)
           /\ lights_state = "Off"
           /\ door_relay_state = "Off"

\* C16: when the program has been shut down, no monitor is in the middle of a
\* gateway call and no port is open: a call that was in progress at the
\* shutdown has been allowed to complete.  (ShutdownSpec)
C16_CleanShutdown == last.op = "exit" => local.command = <<>>

\* the last step was the command op and no transport error was raised in it
Completed(op) == last.op = op /\ last.errs = 0

\* the frames written are four lighting frames, one for each of the channels
\* 2, 3, 4 and 6, all of the given level
FourLightFrames(level) ==
    /\ Len(wire) = 4
    /\ {wire[i][2] : i \in 1..Len(wire)} = {2, 3, 4, 6}
    /\ \A i \in 1..Len(wire) : wire[i][1] = "SDL" /\ wire[i][3] = level

\* C17: a lights-on command that completes without a transport error has
\* written exactly four lighting frames, one for each channel of 2, 3, 4, 6, of
\* level 100, and a lights-off command likewise of level 0; a door-open command
\* has written exactly the one frame [0xFE, 8] and a door-close command the one
\* frame [0xFE, 0].  (GatewaySpec)
C17_WireProtocol ==
    /\ Completed("turn_on_lights") => FourLightFrames(100)
    /\ Completed("turn_off_lights") => FourLightFrames(0)
    /\ Completed("turn_on_door_relay") => wire = << <<254, 8>> >>
    /\ Completed("turn_off_door_relay") => wire = << <<254, 0>> >>

\* the step is a pass of the schedule monitor: its sleep is set anew
SchedulePass == local'.schedule_wake # local.schedule_wake

\* the last step sent lighting frames of the given level
Sent(level) == wire # <<>> /\ \A i \in 1..Len(wire) : wire[i][3] = level

\* C18: the schedule monitor issues the lights-on command at most once in a
\* minute that equals the on time, and the lights-off command at most once in
\* a minute that equals the off time: of two passes in the same minute with no
\* command between them, at most one fires.  (PollSpec)
C18_OncePerMinute ==
    [][(/\ SchedulePass
        /\ last.op = "monitor_schedule"
        /\ last'.op = "monitor_schedule"
        /\ last'.arg = last.arg)
           => /\ ~(Sent(LevelOn) /\ Sent(LevelOn)')
              /\ ~(Sent(LevelOff) /\ Sent(LevelOff)')]_vars

\* door_open_time before any opening: the value __init__ gives it
NoOpenTime == 0

\* C19: the opening time is set to the current time exactly by a step that
\* takes the door from closed to open, with or without a transport error, is
\* left alone by opening an open door, and is cleared by closing the door; the
\* door is closed only with no opening time.  (GatewaySpec)
C19_OpenTimeTracksDoor ==
    /\ [](door_relay_state = "Off" => door_open_time = NoOpenTime)
    /\ [][/\ (door_relay_state = "Off" /\ door_relay_state' = "On") =>
                 door_open_time' = now'
          /\ (door_relay_state = "On" /\ door_relay_state' = "On") =>
                 door_open_time' = door_open_time
          /\ (door_relay_state' = "Off") => door_open_time' = NoOpenTime]_vars

\* C20: after any sequence of mode changes and clicks on the schedule box, a
\* pass of the climate monitor in mode Manual or Schedule commands the lights
\* neither on nor off, whatever the reading: it sends no lighting frame and
\* leaves the lights flag as it is.  (Spec)
C20_NoRegulationOutsideAuto ==
    [][(last'.op = "monitor_temperature" /\ current_mode \in {"Manual", "Schedule"})
           => /\ wire' = <<>>
              /\ lights_state' = lights_state]_vars

\* scheduling is enabled exactly in the modes Schedule and Energy Saving
ScheduleConsistent == scheduled_mode <=> current_mode \in {"Schedule", "Energy Saving"}

\* the step is one of the schedule monitor inside a lights command: a frame is
\* written or the command ends and the flag is set
ScheduleActuates == local' # local /\ local.command # <<>>

\* C21: in every state scheduling is enabled iff the mode is Schedule or
\* Energy Saving, after mode changes and clicks on the schedule box alike, and
\* the schedule monitor writes no lighting frame and sets no lights flag while
\* the mode is Manual or Auto, also when a mode change runs while a pass of
\* the monitor is under way.  (RaceSpec)
C21_ScheduleFollowsMode ==
    /\ []ScheduleConsistent
    /\ [][ScheduleActuates => current_mode \in {"Schedule", "Energy Saving"}]_vars

\* C22: whether or not the startup probe succeeded, and whatever transport
\* errors occurred before, a manual lights-on ends with the lights flag on, a
\* manual lights-off with it off, a manual door-open with the door flag on and
\* a manual door-close with it off.  (GatewaySpec)
C22_ActuationNotGated ==
    /\ last.op = "turn_on_lights" => lights_state = "On"
    /\ last.op = "turn_off_lights" => lights_state = "Off"
    /\ last.op = "turn_on_door_relay" => door_relay_state = "On"
    /\ last.op = "turn_off_door_relay" => door_relay_state = "Off"

\* a pass of the energy monitor: the only step that moves the sample time
EnergyPass == last_energy_update' # last_energy_update

\* the load factor of the claim in tenths: 1.0 or 0.2 for the lights plus 0.5
\* or 0.0 for the door
LoadFactor ==
    (IF lights_state = "On" THEN 10 ELSE 2) + (IF door_relay_state = "On" THEN 5 ELSE 0)

\* C23: every pass of the energy monitor adds exactly load factor times the
\* hours since the last sample times 0.1 kWh to the energy usage (in
\* hundredths of a kWh: load factor in tenths times seconds over 3600), sets
\* the sample time to the current time, and leaves the usage strictly
\* positive as time has elapsed since the last sample.  (EnergySpec)
C23_EnergyAccrual ==
    [][EnergyPass =>
           /\ energy_usage' * 3600 =
                  energy_usage * 3600 + LoadFactor * (now - last_energy_update)
           /\ last_energy_update' = now
           /\ energy_usage' > 0]_vars

\* no light command is in progress and every channel has received a frame
LightsSettled ==
    /\ local.command = <<>>
    /\ \A ch \in Channels : local.sent[ch] # <<>>

\* C24: when the light commands have completed, a manual command that ran
\* while the schedule monitor was in the middle of its own included, and no
\* transport error has occurred, the last frame written to each of the four
\* channels carries one and the same level, and the lights flag agrees with
\* that level.  (OverlapSpec: transport without errors)
C24_FramesDoNotInterleave ==
    LightsSettled =>
        \E level \in {LevelOn, LevelOff} :
            /\ \A ch \in Channels : local.sent[ch] = <<level>>
            /\ lights_state = LevelFlag(level)

====
